---------------------------- MODULE Spec2Model ----------------------------
(***************************************************************************)
(* Model of src/lib/nat/lambda/configure-nat/index.py: the Lambda handler  *)
(* that, when a NAT instance reaches the running state, disables its       *)
(* source/destination check and repoints the 0.0.0.0/0 route of every      *)
(* opted-in route table of the instance's VPC at it.                       *)
(*                                                                         *)
(* One action per EC2 API call of the handler; the Python between two      *)
(* calls (tag loops, the if of the handler, the for of updateRouteTables)  *)
(* is part of the action of the call before it.  The EC2 control plane is  *)
(* the shared state: instance descriptions, route tables and their         *)
(* default routes.  A mutating call may be rejected by EC2 for reasons of  *)
(* its own (permissions, throttling): each has a failing branch.           *)
(***************************************************************************)
EXTENDS Naturals, Sequences, FiniteSets

(***************************************************************************)
(* Strings whose contents the code inspects (tag values, searched for a    *)
(* substring) are sequences of one-character strings.                      *)
(***************************************************************************)
NatMarker ==
    <<"a","s","g","-","n","a","t","-","i","n","s","t","a","n","c","e">>

\* Python's `needle in value` on strings.
Contains(needle, value) ==
    \E i \in 1..(Len(value) + 1) :
        /\ i + Len(needle) - 1 <= Len(value)
        /\ SubSeq(value, i, i + Len(needle) - 1) = needle

Tag(k, v) == [Key |-> k, Value |-> v]

(***************************************************************************)
(* The EC2 account the handler runs against.  Route tables are numbered in *)
(* the order describe_route_tables lists them: 1..NumRouteTables belong to *)
(* the VPC of the instances, OtherVpcTable (the last) to another VPC.      *)
(***************************************************************************)
NumRouteTables == 3

OtherVpcTable == NumRouteTables + 1

RouteTableIds == 1..OtherVpcTable

VpcOfRouteTable(id) == IF id = OtherVpcTable THEN "vpc-b" ELSE "vpc-a"

\* A default route that is there before any run: the NAT instance replaced.
OldTarget == "i-0"

\* What describe_instances returns for an instance.  EC2 leaves the "Tags"
\* member out of the description of an instance that has no tags; the
\* description with an empty list is kept as the other possible shape.
Description(vpc, tags) == [VpcId |-> vpc, Tags |-> tags]

UntaggedDescription(vpc) == [VpcId |-> vpc]

\* The instances of the account: two NAT instances of the auto scaling
\* group and instances that are none, one per shape of the tags.
Instances ==
    [ nat1    |-> Description("vpc-a", <<Tag("Name", NatMarker \o <<"-","0","1">>)>>),
      nat2    |-> Description("vpc-a", <<Tag("Env", <<"p","r","o","d">>),
                                         Tag("Name", <<"m","y","-">> \o NatMarker)>>),
      web     |-> Description("vpc-a", <<Tag("Name", <<"w","e","b","-","s","e","r","v","e","r">>)>>),
      role    |-> Description("vpc-a", <<Tag("Role", NatMarker)>>),
      lower   |-> Description("vpc-a", <<Tag("name", NatMarker)>>),
      short   |-> Description("vpc-a", <<Tag("Name", SubSeq(NatMarker, 1, Len(NatMarker) - 1))>>),
      empty   |-> Description("vpc-a", << >>),
      notags  |-> UntaggedDescription("vpc-a") ]

InstanceIds == DOMAIN Instances

\* The tags a route table may carry; every table has a "Tags" list.
RouteTableTags(id) ==
    IF id % 2 = 1
    THEN { << >>,
           <<Tag("AllowNatRouteUpdates", << >>)>> }
    ELSE { <<Tag("Name", <<"A","l","l","o","w","N","a","t",
                           "R","o","u","t","e","U","p","d","a","t","e","s">>)>>,
           <<Tag("Name", <<"p","r","i","v">>),
             Tag("AllowNatRouteUpdates", <<"f","a","l","s","e">>)>> }

States == {"running", "pending", "stopped"}

Events == [instance_id : InstanceIds, state : States]

Procs == {1, 2}

None == "None"

NoEvent == [instance_id |-> None, state |-> None]

NoMsg == [statusCode |-> 0, body |-> None]

Msg200 == [statusCode |-> 200, body |-> "NAT configuration updated"]

Msg204 ==
    [statusCode |-> 204,
     body |-> "Instance not a NAT instance, or state not in [running, pending] :  Skipping"]

VARIABLES
    routeTables,      \* EC2: route table id -> description
    routes,           \* EC2: route table id -> targets of its routes for 0.0.0.0/0
    sourceDestCheck,  \* EC2: instance id -> SourceDestCheck attribute
    pc,               \* per invocation: where lambda_handler stands
    event,            \* per invocation: the event being handled
    route_tables,     \* per invocation: updateRouteTables' route_tables
    idx,              \* per invocation: position of the for loop in route_tables
    msg,              \* per invocation: the returned msg, NoMsg before
    err,              \* per invocation: the exception that left the handler
    calls,            \* per invocation: the mutating EC2 calls issued, in order
    prev,             \* the end of the invocation before, when this one repeats its event
    lastIssued,       \* route table id -> {the invocation whose create_route came last}
    lastCreated       \* route table id -> {the one whose create_route succeeded last}

vars == <<routeTables, routes, sourceDestCheck, pc, event, route_tables, idx,
          msg, err, calls, prev, lastIssued, lastCreated>>

NoPrev == [msg |-> NoMsg, routes |-> [t \in RouteTableIds |-> {}]]

(***************************************************************************)
(* The Python between the calls.                                           *)
(***************************************************************************)

\* isNatInstance's loop over the tags, from tag i on, is_nat_instance so far.
RECURSIVE TagLoop(_, _, _)
TagLoop(tags, i, is_nat_instance) ==
    IF i > Len(tags) THEN is_nat_instance
    ELSE TagLoop(tags, i + 1,
                 IF tags[i].Key = "Name" /\ Contains(NatMarker, tags[i].Value)
                 THEN TRUE ELSE is_nat_instance)

isNatInstance(tags) == TagLoop(tags, 1, FALSE)

\* The condition of lambda_handler's if.
ShouldConfigure(is_nat_instance, state) ==
    is_nat_instance /\ state \in {"running"}

\* lambda_handler without its call of disableSourceDestCheck.
FirstConfigureCallSkipped == "describe_route_tables"

\* The first call of the if branch of lambda_handler.
FirstConfigureCall == "modify_instance_attribute"

\* describe_route_tables called without Filters.
DescribeRouteTablesUnfiltered(vpc_id) ==
    [i \in RouteTableIds |-> routeTables[i]]

\* describe_route_tables with the vpc-id filter, in EC2's order.
DescribeRouteTables(vpc_id) ==
    SelectSeq([i \in RouteTableIds |-> routeTables[i]],
              LAMBDA rt : rt.VpcId = vpc_id)

\* The list comprehension asking for the tag's value to be set as well.
AllowNatRouteUpdatesByValue(route_table) ==
    LET sel == SelectSeq(route_table.Tags,
                         LAMBDA tag : tag.Key = "AllowNatRouteUpdates"
                                      /\ tag.Value = <<"t","r","u","e">>)
    IN  [i \in 1..Len(sel) |-> sel[i].Key]

\* The list comprehension of updateRouteTables: the matching keys.
AllowNatRouteUpdates(route_table) ==
    LET sel == SelectSeq(route_table.Tags,
                         LAMBDA tag : tag.Key = "AllowNatRouteUpdates")
    IN  [i \in 1..Len(sel) |-> sel[i].Key]

\* The for loop with updateRouteTables' return indented into its body: it
\* ends after the first table.
NextEligibleReturnInLoop(tables, i) ==
    IF i = 1 /\ Len(tables) >= 1 /\ AllowNatRouteUpdates(tables[1]) # << >>
    THEN 1 ELSE Len(tables) + 1

\* The for loop of updateRouteTables: the first table from position i on for
\* which setPublicRoute is called, Len + 1 when the loop runs out.
RECURSIVE NextEligible(_, _)
NextEligible(tables, i) ==
    IF i > Len(tables) THEN i
    ELSE IF AllowNatRouteUpdates(tables[i]) # << >> THEN i
    ELSE NextEligible(tables, i + 1)

\* A mutating EC2 call and how it ended: "ok", or the error EC2 answered:
\* "NotFound" and "AlreadyExists" when the state of the routes rules the
\* call out (whatever else is wrong with it), "Rejected" when only another
\* reason does.
Call(op, target, result) == [op |-> op, target |-> target, result |-> result]

\* No invocation in the log has called create_route on the table.
Nobody == {}

\* The exception leaves lambda_handler: nothing is returned.
Raise(p, e) ==
    /\ pc' = [pc EXCEPT ![p] = "raised"]
    /\ err' = [err EXCEPT ![p] = e]
    /\ msg' = msg

\* The for loop goes on from position i; after it updateRouteTables returns
\* and lambda_handler returns the 200 msg.
ContinueLoop(p, tables, i) ==
    LET j == NextEligible(tables, i) IN
    /\ idx' = [idx EXCEPT ![p] = j]
    /\ err' = err
    /\ IF j > Len(tables)
       THEN /\ pc' = [pc EXCEPT ![p] = "done"]
            /\ msg' = [msg EXCEPT ![p] = Msg200]
       ELSE /\ pc' = [pc EXCEPT ![p] = "delete_route"]
            /\ msg' = msg

RouteTableChoices(id) ==
    { [RouteTableId |-> id, VpcId |-> VpcOfRouteTable(id), Tags |-> tags] :
        tags \in RouteTableTags(id) }

Init ==
    /\ routeTables \in [RouteTableIds -> UNION {RouteTableChoices(id) : id \in RouteTableIds}]
    /\ \A id \in RouteTableIds : routeTables[id].RouteTableId = id
    /\ routes \in [RouteTableIds -> {{}, {OldTarget}}]
    /\ routes[OtherVpcTable] = {OldTarget}
    /\ sourceDestCheck = [i \in InstanceIds |-> TRUE]
    /\ pc = [p \in Procs |-> "idle"]
    /\ event = [p \in Procs |-> NoEvent]
    /\ route_tables = [p \in Procs |-> << >>]
    /\ idx = [p \in Procs |-> 0]
    /\ msg = [p \in Procs |-> NoMsg]
    /\ err = [p \in Procs |-> None]
    /\ calls = [p \in Procs |-> << >>]
    /\ prev = NoPrev
    /\ lastIssued = [t \in RouteTableIds |-> Nobody]
    /\ lastCreated = [t \in RouteTableIds |-> Nobody]

(***************************************************************************)
(* lambda_handler, one action per EC2 call.                                *)
(***************************************************************************)

\* The platform invokes lambda_handler(event, context): lines 5-6.  The
\* log starts anew.
LambdaHandler(p, ev) ==
    /\ pc[p] \in {"idle", "done", "raised"}
    /\ prev' = IF pc[p] # "idle" /\ ev = event[p]
               THEN [msg |-> msg[p], routes |-> routes]
               ELSE NoPrev
    /\ event' = [event EXCEPT ![p] = ev]
    /\ pc' = [pc EXCEPT ![p] = "isNatInstance"]
    /\ route_tables' = [route_tables EXCEPT ![p] = << >>]
    /\ idx' = [idx EXCEPT ![p] = 0]
    /\ msg' = [msg EXCEPT ![p] = NoMsg]
    /\ err' = [err EXCEPT ![p] = None]
    /\ calls' = [calls EXCEPT ![p] = << >>]
    /\ lastIssued' = [t \in RouteTableIds |-> IF lastIssued[t] = {p} THEN Nobody ELSE lastIssued[t]]
    /\ lastCreated' = [t \in RouteTableIds |-> IF lastCreated[t] = {p} THEN Nobody ELSE lastCreated[t]]
    /\ UNCHANGED <<routeTables, routes, sourceDestCheck>>

\* isNatInstance(instance_id) and the if of lambda_handler.
IsNatInstanceCall(p) ==
    /\ pc[p] = "isNatInstance"
    /\ LET description == Instances[event[p].instance_id] IN
       IF "Tags" \notin DOMAIN description
       THEN Raise(p, "KeyError")
       ELSE IF ShouldConfigure(isNatInstance(description.Tags), event[p].state)
       THEN /\ pc' = [pc EXCEPT ![p] = FirstConfigureCall]
            /\ UNCHANGED <<msg, err>>
       ELSE /\ pc' = [pc EXCEPT ![p] = "done"]
            /\ msg' = [msg EXCEPT ![p] = Msg204]
            /\ err' = err
    /\ UNCHANGED <<routeTables, routes, sourceDestCheck, event, route_tables, idx,
                   calls, prev, lastIssued, lastCreated>>

\* disableSourceDestCheck with the error of the call swallowed.
DisableSourceDestCheckSwallowed(p) ==
    /\ pc[p] = "modify_instance_attribute"
    /\ LET instance_id == event[p].instance_id IN
       \/ /\ sourceDestCheck' = [sourceDestCheck EXCEPT ![instance_id] = FALSE]
          /\ calls' = [calls EXCEPT ![p] =
                          Append(@, Call("modify_instance_attribute", instance_id, "ok"))]
       \/ /\ calls' = [calls EXCEPT ![p] =
                          Append(@, Call("modify_instance_attribute", instance_id, "Rejected"))]
          /\ UNCHANGED sourceDestCheck
    /\ pc' = [pc EXCEPT ![p] = "describe_route_tables"]
    /\ UNCHANGED <<routeTables, routes, event, route_tables, idx, msg, err, prev,
                   lastIssued, lastCreated>>

\* disableSourceDestCheck(instance_id).
DisableSourceDestCheck(p) ==
    /\ pc[p] = "modify_instance_attribute"
    /\ LET instance_id == event[p].instance_id IN
       \/ /\ sourceDestCheck' = [sourceDestCheck EXCEPT ![instance_id] = FALSE]
          /\ calls' = [calls EXCEPT ![p] =
                          Append(@, Call("modify_instance_attribute", instance_id, "ok"))]
          /\ pc' = [pc EXCEPT ![p] = "describe_route_tables"]
          /\ UNCHANGED <<msg, err>>
       \/ /\ calls' = [calls EXCEPT ![p] =
                          Append(@, Call("modify_instance_attribute", instance_id, "Rejected"))]
          /\ Raise(p, "ClientError")
          /\ UNCHANGED sourceDestCheck
    /\ UNCHANGED <<routeTables, routes, event, route_tables, idx, prev,
                   lastIssued, lastCreated>>

\* updateRouteTables(instance_id) up to its first setPublicRoute.
UpdateRouteTables(p) ==
    /\ pc[p] = "describe_route_tables"
    /\ LET vpc_id == Instances[event[p].instance_id].VpcId
           tables == DescribeRouteTables(vpc_id)
       IN  /\ route_tables' = [route_tables EXCEPT ![p] = tables]
           /\ ContinueLoop(p, tables, 1)
    /\ UNCHANGED <<routeTables, routes, sourceDestCheck, event, calls, prev,
                   lastIssued, lastCreated>>

\* setPublicRoute with delete_route outside any try: its error leaves
\* lambda_handler.
DeleteRouteUnguarded(p) ==
    /\ pc[p] = "delete_route"
    /\ LET route_table_id == route_tables[p][idx[p]].RouteTableId IN
       \/ /\ routes[route_table_id] # {}
          /\ routes' = [routes EXCEPT ![route_table_id] = {}]
          /\ calls' = [calls EXCEPT ![p] =
                          Append(@, Call("delete_route", route_table_id, "ok"))]
          /\ pc' = [pc EXCEPT ![p] = "create_route"]
          /\ UNCHANGED <<msg, err>>
       \/ /\ routes' = routes
          /\ calls' = [calls EXCEPT ![p] =
                          Append(@, Call("delete_route", route_table_id,
                                         IF routes[route_table_id] = {}
                                         THEN "NotFound" ELSE "Rejected"))]
          /\ Raise(p, "ClientError")
    /\ UNCHANGED <<routeTables, sourceDestCheck, event, route_tables, idx,
                   prev, lastIssued, lastCreated>>

\* setPublicRoute deleting the route of the first table of the list, not of
\* the table it was called for.
DeleteRouteOfFirstTable(p) ==
    /\ pc[p] = "delete_route"
    /\ LET route_table_id == route_tables[p][1].RouteTableId IN
       \/ /\ routes[route_table_id] # {}
          /\ routes' = [routes EXCEPT ![route_table_id] = {}]
          /\ calls' = [calls EXCEPT ![p] =
                          Append(@, Call("delete_route", route_table_id, "ok"))]
       \/ /\ routes' = routes
          /\ calls' = [calls EXCEPT ![p] =
                          Append(@, Call("delete_route", route_table_id,
                                         IF routes[route_table_id] = {}
                                         THEN "NotFound" ELSE "Rejected"))]
    /\ pc' = [pc EXCEPT ![p] = "create_route"]
    /\ UNCHANGED <<routeTables, sourceDestCheck, event, route_tables, idx, msg, err,
                   prev, lastIssued, lastCreated>>

\* setPublicRoute: delete_route inside try/except.  EC2 rejects the call
\* when the table has no such route, and may reject it otherwise; either
\* way the except clause swallows the error.
DeleteRoute(p) ==
    /\ pc[p] = "delete_route"
    /\ LET route_table_id == route_tables[p][idx[p]].RouteTableId IN
       \/ /\ routes[route_table_id] # {}
          /\ routes' = [routes EXCEPT ![route_table_id] = {}]
          /\ calls' = [calls EXCEPT ![p] =
                          Append(@, Call("delete_route", route_table_id, "ok"))]
       \/ /\ routes' = routes
          /\ calls' = [calls EXCEPT ![p] =
                          Append(@, Call("delete_route", route_table_id,
                                         IF routes[route_table_id] = {}
                                         THEN "NotFound" ELSE "Rejected"))]
    /\ pc' = [pc EXCEPT ![p] = "create_route"]
    /\ UNCHANGED <<routeTables, sourceDestCheck, event, route_tables, idx, msg, err,
                   prev, lastIssued, lastCreated>>

\* setPublicRoute with create_route inside the try as well: its error is
\* swallowed and the for loop goes on.
CreateRouteSuppressed(p) ==
    /\ pc[p] = "create_route"
    /\ LET route_table_id == route_tables[p][idx[p]].RouteTableId
           instance_id == event[p].instance_id
       IN  /\ lastIssued' = [lastIssued EXCEPT ![route_table_id] = {p}]
           /\ \/ /\ routes[route_table_id] = {}
                 /\ routes' = [routes EXCEPT ![route_table_id] = {instance_id}]
                 /\ lastCreated' = [lastCreated EXCEPT ![route_table_id] = {p}]
                 /\ calls' = [calls EXCEPT ![p] =
                                 Append(@, Call("create_route", route_table_id, "ok"))]
              \/ /\ calls' = [calls EXCEPT ![p] =
                                 Append(@, Call("create_route", route_table_id,
                                                IF routes[route_table_id] = {}
                                                THEN "Rejected" ELSE "AlreadyExists"))]
                 /\ UNCHANGED <<routes, lastCreated>>
           /\ ContinueLoop(p, route_tables[p], idx[p] + 1)
    /\ UNCHANGED <<routeTables, sourceDestCheck, event, route_tables, prev>>

\* setPublicRoute: create_route, then the rest of the for loop.  EC2 rejects
\* the call when the table already has a route for the destination, and may
\* reject it otherwise; the error leaves lambda_handler.
CreateRoute(p) ==
    /\ pc[p] = "create_route"
    /\ LET route_table_id == route_tables[p][idx[p]].RouteTableId
           instance_id == event[p].instance_id
       IN  /\ lastIssued' = [lastIssued EXCEPT ![route_table_id] = {p}]
           /\ \/ /\ routes[route_table_id] = {}
                 /\ routes' = [routes EXCEPT ![route_table_id] = {instance_id}]
                 /\ lastCreated' = [lastCreated EXCEPT ![route_table_id] = {p}]
                 /\ calls' = [calls EXCEPT ![p] =
                                 Append(@, Call("create_route", route_table_id, "ok"))]
                 /\ ContinueLoop(p, route_tables[p], idx[p] + 1)
              \/ /\ calls' = [calls EXCEPT ![p] =
                                 Append(@, Call("create_route", route_table_id,
                                                IF routes[route_table_id] = {}
                                                THEN "Rejected" ELSE "AlreadyExists"))]
                 /\ Raise(p, "ClientError")
                 /\ UNCHANGED <<routes, idx, lastCreated>>
    /\ UNCHANGED <<routeTables, sourceDestCheck, event, route_tables, prev>>

\* One execution environment: the invocations follow one another.
Next ==
    \/ \E ev \in Events : LambdaHandler(1, ev)
    \/ IsNatInstanceCall(1)
    \/ DisableSourceDestCheck(1)
    \/ UpdateRouteTables(1)
    \/ DeleteRoute(1)
    \/ CreateRoute(1)

Spec == Init /\ [][Next]_vars

\* Two execution environments, each handling one event of a NAT instance
\* that came up, their EC2 calls interleaved in any order.
RaceEvents == [instance_id : {"nat1", "nat2"}, state : {"running"}]

NextRace ==
    \E p \in Procs :
        \/ \E ev \in RaceEvents : pc[p] = "idle" /\ LambdaHandler(p, ev)
        \/ IsNatInstanceCall(p)
        \/ DisableSourceDestCheck(p)
        \/ UpdateRouteTables(p)
        \/ DeleteRoute(p)
        \/ CreateRoute(p)

SpecRace == Init /\ [][NextRace]_vars

(***************************************************************************)
(* The vocabulary of the properties, stated on the EC2 state and the call  *)
(* log, not through the operators of the handler.                          *)
(***************************************************************************)

HasAllowTag(t) ==
    \E i \in 1..Len(routeTables[t].Tags) :
        routeTables[t].Tags[i].Key = "AllowNatRouteUpdates"

HasNatName(instance_id) ==
    /\ "Tags" \in DOMAIN Instances[instance_id]
    /\ \E i \in 1..Len(Instances[instance_id].Tags) :
          /\ Instances[instance_id].Tags[i].Key = "Name"
          /\ Contains(NatMarker, Instances[instance_id].Tags[i].Value)

\* The route tables updateRouteTables is to update for the instance.
EligibleTables(instance_id) ==
    { t \in RouteTableIds :
        routeTables[t].VpcId = Instances[instance_id].VpcId /\ HasAllowTag(t) }

Finished(p) == pc[p] \in {"done", "raised"}

NatRunning(p) == HasNatName(event[p].instance_id) /\ event[p].state = "running"

IsRouteCall(c) == c.op \in {"delete_route", "create_route"}

CallsOn(p, t) == SelectSeq(calls[p], LAMBDA c : IsRouteCall(c) /\ c.target = t)

Last(s) == s[Len(s)]

\* The table setPublicRoute is working on.
CurrentTable(p) == route_tables[p][idx[p]].RouteTableId

\* No modify_instance_attribute and no create_route of the invocation failed.
NoFatalFailure(p) ==
    \A i \in 1..Len(calls[p]) :
        calls[p][i].op # "delete_route" => calls[p][i].result = "ok"

\* A route changes only by a delete_route or create_route that succeeded on
\* its table and is the last call of the log.
RoutesChangeByLoggedCall ==
    \A t \in RouteTableIds :
        routes'[t] # routes[t] =>
            /\ Len(calls'[1]) = Len(calls[1]) + 1
            /\ IsRouteCall(Last(calls'[1]))
            /\ Last(calls'[1]).target = t
            /\ Last(calls'[1]).result = "ok"

(***************************************************************************)
(* C1                                                                      *)
(***************************************************************************)

\* C1: when lambda_handler has returned the 200 msg for an instance, every
\* route table of the instance's VPC that carries the AllowNatRouteUpdates
\* tag has exactly one 0.0.0.0/0 route and it targets the instance, whatever
\* the table had before; when the run repeated the event of a run that had
\* returned 200, the routes of all tables are those the first run left.
C1_DefaultRouteTargetsInstance ==
    (pc[1] = "done" /\ msg[1] = Msg200) =>
        /\ \A t \in EligibleTables(event[1].instance_id) :
              routes[t] = {event[1].instance_id}
        /\ prev.msg = Msg200 => routes = prev.routes

\* A 200 run over two tagged tables, one that had a default route (its
\* delete_route succeeded) and one that had none.
C1_Witness ==
    /\ pc[1] = "done" /\ msg[1] = Msg200
    /\ \E t, u \in EligibleTables(event[1].instance_id) :
          /\ CallsOn(1, t)[1].result = "ok"
          /\ CallsOn(1, u)[1].result = "NotFound"

\* The second of two 200 runs of the same event, tables updated.
C1_WitnessRerun ==
    /\ pc[1] = "done" /\ msg[1] = Msg200 /\ prev.msg = Msg200
    /\ Cardinality(EligibleTables(event[1].instance_id)) >= 2

(***************************************************************************)
(* C2                                                                      *)
(***************************************************************************)

\* C2: for an event whose instance has no Name tag containing
\* asg-nat-instance, or whose state is not running, lambda_handler issues no
\* mutating call and, once it has ended, has returned the 204 msg.
C2_SkipReturns204 ==
    (pc[1] # "idle" /\ ~NatRunning(1)) =>
        /\ calls[1] = << >>
        /\ Finished(1) => pc[1] = "done" /\ msg[1].statusCode = 204

\* The same for the instances whose description holds a "Tags" member.
C2_SkipReturns204WhenTagged ==
    ( /\ pc[1] # "idle"
      /\ "Tags" \in DOMAIN Instances[event[1].instance_id]
      /\ ~NatRunning(1) ) =>
        /\ calls[1] = << >>
        /\ Finished(1) => pc[1] = "done" /\ msg[1].statusCode = 204

(***************************************************************************)
(* C3                                                                      *)
(***************************************************************************)

\* C3: a delete_route or create_route is only ever issued after the one
\* modify_instance_attribute of the invocation succeeded; and a run for a
\* running instance with the NAT name in which no modify_instance_attribute
\* and no create_route fails returns the 200 msg having called
\* disableSourceDestCheck once (one modify_instance_attribute, the attribute
\* now false) and updateRouteTables once (the VPC's tables listed, one
\* delete_route then one create_route per tagged table).
C3_ConfigureOnceInOrder ==
    /\ \A i \in 1..Len(calls[1]) :
          IsRouteCall(calls[1][i]) =>
              /\ i > 1
              /\ calls[1][1] = Call("modify_instance_attribute",
                                    event[1].instance_id, "ok")
    /\ (Finished(1) /\ NatRunning(1) /\ NoFatalFailure(1)) =>
          /\ pc[1] = "done" /\ msg[1] = Msg200
          /\ Cardinality({i \in 1..Len(calls[1]) :
                            calls[1][i].op = "modify_instance_attribute"}) = 1
          /\ sourceDestCheck[event[1].instance_id] = FALSE
          /\ Len(route_tables[1]) = NumRouteTables
          /\ \A t \in RouteTableIds :
                LET on == CallsOn(1, t) IN
                IF t \in EligibleTables(event[1].instance_id)
                THEN /\ Len(on) = 2
                     /\ on[1].op = "delete_route"
                     /\ on[2] = Call("create_route", t, "ok")
                ELSE on = << >>

\* A 200 run over a tagged table in which every call succeeded.
C3_Witness ==
    /\ pc[1] = "done" /\ msg[1] = Msg200 /\ NatRunning(1)
    /\ EligibleTables(event[1].instance_id) # {}
    /\ \A i \in 1..Len(calls[1]) : calls[1][i].result = "ok"

(***************************************************************************)
(* C4                                                                      *)
(***************************************************************************)

Classified(p) == pc[p] \notin {"idle", "isNatInstance"}

\* C5: isNatInstance returns, without failing and without a mutating call,
\* true exactly for the instances with a tag of key Name whose value contains
\* asg-nat-instance: for a running event, lambda_handler goes on to
\* configure exactly those and returns the 204 msg for all others.
C5_IsNatInstanceIffNameTag ==
    Classified(1) =>
        /\ err[1] # "KeyError"
        /\ event[1].state = "running" =>
              ((pc[1] = "done" /\ msg[1] = Msg204) <=> ~HasNatName(event[1].instance_id))
        /\ ~HasNatName(event[1].instance_id) => calls[1] = << >>

\* The same for the instances whose description holds a "Tags" member.
C5_IsNatInstanceIffNameTagWhenTagged ==
    (Classified(1) /\ "Tags" \in DOMAIN Instances[event[1].instance_id]) =>
        /\ err[1] # "KeyError"
        /\ event[1].state = "running" =>
              ((pc[1] = "done" /\ msg[1] = Msg204) <=> ~HasNatName(event[1].instance_id))
        /\ ~HasNatName(event[1].instance_id) => calls[1] = << >>
        /\ isNatInstance(Instances[event[1].instance_id].Tags)
              <=> HasNatName(event[1].instance_id)

(***************************************************************************)
(* C6                                                                      *)
(***************************************************************************)

\* C6: a delete_route that failed, for want of a route or otherwise, is
\* followed by the create_route of the same table; an error that leaves
\* lambda_handler is never that of a delete_route; and a run in which a
\* delete_route found no route and no modify_instance_attribute or
\* create_route failed has created the route of every tagged table of the
\* VPC and returned the 200 msg.
C6_FailedDeleteSuppressed ==
    /\ \A i \in 1..Len(calls[1]) :
          (calls[1][i].op = "delete_route" /\ calls[1][i].result # "ok") =>
              IF i < Len(calls[1])
              THEN /\ calls[1][i + 1].op = "create_route"
                   /\ calls[1][i + 1].target = calls[1][i].target
              ELSE /\ pc[1] = "create_route"
                   /\ CurrentTable(1) = calls[1][i].target
    /\ (pc[1] = "raised" /\ calls[1] # << >>) => Last(calls[1]).op # "delete_route"
    /\ ( /\ Finished(1)
         /\ NoFatalFailure(1)
         /\ \E i \in 1..Len(calls[1]) : calls[1][i].result = "NotFound" ) =>
          /\ pc[1] = "done" /\ msg[1] = Msg200
          /\ \A t \in EligibleTables(event[1].instance_id) :
                \E i \in 1..Len(calls[1]) : calls[1][i] = Call("create_route", t, "ok")

\* A 200 run whose first delete_route found no route, with tables after it.
C6_Witness ==
    /\ pc[1] = "done" /\ msg[1] = Msg200
    /\ Len(calls[1]) >= 5
    /\ calls[1][2].op = "delete_route" /\ calls[1][2].result = "NotFound"

(***************************************************************************)
(* C7                                                                      *)
(***************************************************************************)

BothFinished == Finished(1) /\ Finished(2)

DifferentInstances == event[1].instance_id # event[2].instance_id

\* None of the two invocations had a call rejected for a reason other than
\* the state of the routes.
NoRejection ==
    \A p \in Procs : \A i \in 1..Len(calls[p]) : calls[p][i].result # "Rejected"

InstanceOf(ps) == {event[p].instance_id : p \in ps}

\* C7 as claimed: once two concurrent invocations for two NAT instances of
\* the VPC have ended, every tagged table on which a create_route was issued
\* has exactly one 0.0.0.0/0 route, targeting the instance of the
\* create_route issued last on that table.
C7_LastIssuedWins ==
    (BothFinished /\ DifferentInstances /\ NoRejection) =>
        \A t \in EligibleTables(event[1].instance_id) :
            lastIssued[t] # Nobody => routes[t] = InstanceOf(lastIssued[t])

\* C7 as amended: once both have ended, a tagged table has at most one
\* 0.0.0.0/0 route; the route is, when one of the two created it, that of the
\* create_route that succeeded last on the table; and when both returned the
\* 200 msg every tagged table has exactly that route.
C7_LastCreatedWins ==
    (BothFinished /\ DifferentInstances) =>
        \A t \in EligibleTables(event[1].instance_id) :
            /\ Cardinality(routes[t]) <= 1
            /\ lastCreated[t] # Nobody =>
                  routes[t] \in {{}, InstanceOf(lastCreated[t])}
            /\ lastCreated[t] = Nobody => routes[t] \in {{}, {OldTarget}}
            /\ (msg[1] = Msg200 /\ msg[2] = Msg200) =>
                  /\ lastCreated[t] # Nobody
                  /\ lastIssued[t] = lastCreated[t]
                  /\ routes[t] = InstanceOf(lastCreated[t])

\* Both ended, no call rejected but for the routes' state, and on some table
\* the create_route issued last is not the one that succeeded last.
C7_Witness ==
    /\ BothFinished /\ DifferentInstances /\ NoRejection
    /\ \E t \in EligibleTables(event[1].instance_id) :
          /\ lastCreated[t] # Nobody
          /\ lastIssued[t] # lastCreated[t]
          /\ routes[t] = InstanceOf(lastCreated[t])

\* Both returned the 200 msg over two tagged tables, each creating the last
\* route of one.
C7_WitnessBoth200 ==
    /\ BothFinished /\ DifferentInstances
    /\ msg[1] = Msg200 /\ msg[2] = Msg200
    /\ \E t, u \in EligibleTables(event[1].instance_id) :
          lastCreated[t] = {1} /\ lastCreated[u] = {2}

(***************************************************************************)
(* C8                                                                      *)
(***************************************************************************)

\* C8: when modify_instance_attribute has failed, it is the only call of the
\* invocation, the error has left lambda_handler and no msg is returned; and
\* as a route only changes by a delete_route or create_route of the log, no
\* route table has changed.
C8_AttributeFailureAborts ==
    /\ [](\A i \in 1..Len(calls[1]) :
             (calls[1][i].op = "modify_instance_attribute"
                  /\ calls[1][i].result # "ok") =>
                 /\ Len(calls[1]) = 1
                 /\ pc[1] = "raised" /\ err[1] = "ClientError"
                 /\ msg[1] = NoMsg)
    /\ [][RoutesChangeByLoggedCall]_vars
    /\ [][(pc[1] = "modify_instance_attribute" /\ pc'[1] = "raised")
              => routes' = routes]_vars

\* The invocation ended by the error of modify_instance_attribute.
C8_Witness ==
    /\ pc[1] = "raised"
    /\ calls[1] = <<Call("modify_instance_attribute", event[1].instance_id, "Rejected")>>
    /\ EligibleTables(event[1].instance_id) # {}

(***************************************************************************)
(* C9                                                                      *)
(***************************************************************************)

\* C9: when a create_route has failed, it is the last call of the
\* invocation, the error has left lambda_handler and no msg is returned, and
\* every table whose create_route came before has its new default route to
\* the instance.
C9_CreateFailureAborts ==
    \A i \in 1..Len(calls[1]) :
        (calls[1][i].op = "create_route" /\ calls[1][i].result # "ok") =>
            /\ i = Len(calls[1])
            /\ pc[1] = "raised" /\ err[1] = "ClientError"
            /\ msg[1] = NoMsg
            /\ \A j \in 1..(i - 1) :
                  calls[1][j].op = "create_route" =>
                      /\ calls[1][j].result = "ok"
                      /\ routes[calls[1][j].target] = {event[1].instance_id}

\* The create_route of the second of three tagged tables failed.
C9_Witness ==
    /\ pc[1] = "raised"
    /\ Cardinality(EligibleTables(event[1].instance_id)) = 3
    /\ Len(calls[1]) = 5
    /\ Last(calls[1]).op = "create_route"
    /\ \E t \in EligibleTables(event[1].instance_id) : routes[t] = {OldTarget}

(***************************************************************************)
(* C10                                                                     *)
(***************************************************************************)

\* C10: after a delete_route that succeeded, the table setPublicRoute works
\* on has no 0.0.0.0/0 route until its create_route; when that create_route
\* fails the invocation ends with the table without one; after a failed
\* invocation a table whose delete_route succeeded holds no route or the new
\* one, and as a route only changes by a successful delete_route or
\* create_route of the log, every other table holds the route it had.
C10_ReplacementNotAtomic ==
    /\ []( /\ ( /\ pc[1] = "create_route"
                 /\ Last(calls[1]).op = "delete_route"
                 /\ Last(calls[1]).result = "ok" ) => routes[CurrentTable(1)] = {}
           /\ (pc[1] = "raised" /\ Len(calls[1]) >= 2) =>
                 LET del == calls[1][Len(calls[1]) - 1] IN
                 (del.op = "delete_route" /\ del.result = "ok")
                     => routes[del.target] = {}
           /\ pc[1] = "raised" =>
                 \A i \in 1..Len(calls[1]) :
                     (calls[1][i].op = "delete_route" /\ calls[1][i].result = "ok")
                         => routes[calls[1][i].target] \in {{}, {event[1].instance_id}} )
    /\ [][RoutesChangeByLoggedCall]_vars

\* The invocation ended by the error of the create_route that followed a
\* successful delete_route: the table is left without default route.
C10_Witness ==
    /\ pc[1] = "raised"
    /\ Len(calls[1]) >= 2
    /\ calls[1][Len(calls[1]) - 1].op = "delete_route"
    /\ calls[1][Len(calls[1]) - 1].result = "ok"
    /\ routes[Last(calls[1]).target] = {}

=============================================================================
